---- MODULE Spec2Model ----
(***************************************************************************)
(* The scan workflow of minion-backend: the control endpoint               *)
(* (views/scans.py, put_scan_control), the state-queue jobs, the scan      *)
(* workflow task and the plugin-session runner (tasks.py).                 *)
(*                                                                         *)
(* One scan with NSessions sessions is modelled.  The repository holds     *)
(* the scan document (scan, sessions), the issue documents (issues); the   *)
(* task bus holds the state queue (stateQ, FIFO, one consumer) and the     *)
(* run_plugin tasks (bus).  Every send_task(...).get() is two steps: the   *)
(* caller appends the job and blocks, the state worker applies the head    *)
(* job and resumes the caller at the label the job carries.                *)
(*                                                                         *)
(* Session timestamps (queued, started, finished of a session) are not     *)
(* modelled; the scan's timestamps are.                                    *)
(***************************************************************************)
EXTENDS Integers, Sequences, FiniteSets, TLC

\* ---- bounds of the model
NSessions == 2      \* sessions of the scan (steps of its plan)
MaxMsgs   == 2      \* stdout lines the plugin children of the scan emit at most
MaxStops  == 1      \* STOP control requests issued at most
MaxTime   == 1      \* the wall clock runs 0..MaxTime
MaxMsgsPrior == 3   \* the same as MaxMsgs, for the scan that has a previous scan
MaxRefs   == 1      \* issues a session references at most when the correlator is run alone
MaxRuns   == 2      \* runs of the correlator when it is run alone
NReporters == 2     \* state workers that run session_report_issue at the same time
MaxReports == 2     \* session_report_issue jobs each of them takes at most
MaxBytes  == 4      \* length of the longest stream a Runner reads
NStarts   == 2      \* START requests made for the scan at the same time
NScans    == 3      \* scans in the collection that delete operations work on

Sessions == 1..NSessions

\* Python's None
NONE == "NONE"

\* a timestamp field that is None (views/scans.py:138-140)
NoTime == -1

\* no other scan of the same target and plan
NoPrior == [exists |-> FALSE, issues |-> [i \in Sessions |-> <<>>]]

\* no scan of the same target and plan was created after this one
NoNewer == [exists |-> FALSE, issues |-> [i \in Sessions |-> <<>>]]

\* the scans of the collection that delete operations work on
ScanIds == 1..NScans

\* the (target, plan) pairs of those scans
Pairs == {"p", "q"}

\* a collection the delete operations are never called on
NoScans ==
    [scans |-> [s \in ScanIds |-> [exists |-> FALSE, pair |-> "p",
                                    issues |-> [i \in Sessions |-> <<>>]]],
     op    |-> [name |-> NONE, id |-> 0]]

\* the START requests a scan gets at the same time
Starts == 1..NStarts

\* no START request was made
NoStarts ==
    [req      |-> [r \in Starts |-> [pc |-> "idle", seen |-> NONE]],
     task     |-> [w \in Starts |-> [pc |-> "none", i |-> 1, mem |-> [i \in Sessions |-> "CREATED"]]],
     plug     |-> [w \in Starts |-> [pc |-> "none", result |-> NONE]],
     q        |-> <<>>,
     queued   |-> [i \in Sessions |-> 0],
     children |-> [i \in Sessions |-> 0]]

\* a Runner that was never run (tasks.py:295-302)
NoRunner == [stream |-> <<>>, pos |-> 0, buffer |-> <<>>, passed |-> <<>>, open |-> TRUE]

\* no document for an Id in the issues collection
NoIssue == [exists |-> FALSE, Severity |-> NONE, Status |-> NONE, OldStatus |-> NONE]

ScanTerminal == {"FINISHED", "FAILED", "STOPPED", "ABORTED"}

\* tasks.py:542, the states a finish message may carry
FinishStates == {"FINISHED", "FAILED", "STOPPED", "TERMINATED", "TIMEOUT", "ABORTED"}

SessionTerminal == FinishStates \cup {"CANCELLED"}

\* a finish message's data.state: a valid state or something else
MsgStates == FinishStates \cup {"BOGUS"}

\* a finish message's data.failure: key absent, null, or an object
FinishFailure == {"missing", "null", "set"}

IssueIds == {"A", "B"}

\* the issue Ids the plugin children of this scan report
EmittedIds == {"A"}
Severities == {"Low", "High"}

\* one document per Id at most
NoDups == [x \in IssueIds |-> 0]

\* the state workers that may run session_report_issue at the same time
Reporters == 1..NReporters

\* no session_report_issue job is being run outside the state queue
NoReports == [r \in Reporters |-> [pc |-> "idle", id |-> NONE, sev |-> NONE, taken |-> 0]]

\* one stdout line of the plugin child
Msgs ==
    [kind : {"issue"}, id : EmittedIds, sev : Severities]
        \cup [kind : {"artifact", "progress", "garbage"}]
        \cup [kind : {"finish"}, state : MsgStates, failure : FinishFailure]

\* outcome of the admission checks of the workflow (tasks.py:650-673):
\*   blacklisted   scannable() is false
\*   lookup_error  the GET /sites request fails (raise_for_status, tasks.py:410)
\*   no_site       the answer lists no site: j['sites'][0] raises IndexError (tasks.py:412)
\*   null_site     the first listed site is empty or null ("if not site", tasks.py:663)
\*   not_verified  ownership.verify() is false
Admission == {"ok", "blacklisted", "lookup_error", "no_site", "null_site", "not_verified"}

VARIABLES
    scan,        \* the scan document: state, queued, started, finished, failure
    sessions,    \* scan['sessions']: per session state, _task, issues, artifacts, failure
    issues,      \* the issues collection: Id -> document or NoIssue
    callbacks,   \* the scan-state callbacks posted, in order
    stateQ,      \* the 'state' queue: jobs in enqueue order
    wf,          \* the scan task: pc, loop index, its in-memory copy of the scan,
                 \* admitted: the admission checks passed, adm: their outcome,
                 \* raised: a call of the task raised (SpecErr only)
    bus,         \* the run_plugin task of each session: st, backend state, result
    rp,          \* run_plugin of each session: pc, finished, corr: the session's
                 \* state when set_status_issues raised, nofail: the finish message
                 \* it took had no failure field
    child,       \* the plugin child of each session: st, signalled
    sigHandler,  \* SIGUSR1 disposition of the plugin worker: 0 = SIG_DFL, i = forward to child i
    api,         \* STOP requests: issued, written but scan_stop not yet enqueued,
                 \* loopStop: one was issued while the scan was STARTED and admitted
    now,         \* wall clock
    lines,       \* stdout lines the plugin children may still emit
    prior,       \* the previous scan of the same target and plan, if there is one:
                 \* the issue lists of its sessions (session i of both scans runs plugin i)
    runs,        \* set_status_issues runs applied directly (SpecCorr only)
    dups,        \* the issues collection: per Id, the documents beyond the first
    coll,        \* the scans collection as the delete operations see it: scans, the
                 \* documents; op, the last delete operation called
    twice,       \* two START requests for the scan and the scan tasks they enqueue:
                 \* req, task, plug: the position of each request, scan task and
                 \* run_plugin; q: the state queue they use; queued, children: how
                 \* often each session was set QUEUED, how many children it got
    runner,      \* a Runner and the stdout of its child: stream, the bytes the child
                 \* writes; pos, how many were delivered; buffer, _buffer; passed,
                 \* the lines given to the callback; open, the reactor still reads
    newer,       \* a scan of the same target and plan created after this one: exists,
                 \* issues of each session
    cbFailed,    \* the scan-state callbacks whose POST failed (no connection or an
                 \* HTTP error status): how many
    rep          \* session_report_issue jobs run by concurrent state workers
                 \* (SpecReport only): pc, Id and Severity of the job, jobs taken

vars == <<scan, sessions, issues, callbacks, cbFailed, stateQ, wf, bus, rp, child, sigHandler, api, now, lines,
          prior, runs, dups, rep, cbFailed, newer, runner, twice, coll>>

\* ---- helpers

Job(op, sid, st, fl, who, ret) ==
    [op |-> op, sid |-> sid, state |-> st, t |-> now, failure |-> fl,
     who |-> who, ret |-> ret, id |-> NONE, sev |-> NONE]

IssueJob(sid, m, ret) ==
    [op |-> "session_report_issue", sid |-> sid, state |-> NONE, t |-> now, failure |-> NONE,
     who |-> "rp", ret |-> ret, id |-> m.id, sev |-> m.sev]

\* no job is sent
NoJob == Job("none", 0, NONE, NONE, NONE, NONE)

\* the state worker hands the result back: the blocked caller resumes
AckWf(j) == IF j.who = "wf" THEN [wf EXCEPT !.pc = j.ret] ELSE wf

AckRp(j) ==
    IF j.who = "rp" /\ rp[j.sid].pc = "blocked"
    THEN [rp EXCEPT ![j.sid].pc = j.ret]
    ELSE rp

HeadIs(op) == stateQ # <<>> /\ Head(stateQ).op = op

Init ==
    /\ scan = [state |-> "CREATED", queued |-> NoTime, started |-> NoTime,
               finished |-> NoTime, failure |-> NONE]
    /\ sessions = [i \in Sessions |->
                     [state |-> "CREATED", task |-> FALSE, issues |-> <<>>,
                      artifacts |-> 0, failure |-> NONE]]
    /\ issues = [x \in IssueIds |-> NoIssue]
    /\ callbacks = <<>>
    /\ stateQ = <<>>
    /\ wf = [pc |-> "idle", i |-> 1, mem |-> [i \in Sessions |-> "CREATED"],
             memScan |-> "CREATED", admitted |-> FALSE, adm |-> NONE, raised |-> FALSE]
    /\ bus = [i \in Sessions |-> [st |-> "none", backend |-> "PENDING", result |-> NONE]]
    /\ rp = [i \in Sessions |-> [pc |-> "none", finished |-> NONE, corr |-> NONE, nofail |-> FALSE]]
    /\ lines = MaxMsgs
    /\ prior = NoPrior
    /\ runs = 0
    /\ dups = NoDups
    /\ rep = NoReports
    /\ cbFailed = 0
    /\ newer = NoNewer
    /\ runner = NoRunner
    /\ twice = NoStarts
    /\ coll = NoScans
    /\ child = [i \in Sessions |-> [st |-> "none", sig |-> FALSE]]
    /\ sigHandler = 0
    /\ api = [stops |-> 0, pending |-> 0, loopStop |-> FALSE, preSpawn |-> {}, revoked |-> {}]
    /\ now = 0

\* ---- the control endpoint (views/scans.py)

\* PUT /scans/<id>/control START
ApiStart ==
    /\ scan.state = "CREATED"
    /\ wf.pc = "idle"
    /\ scan' = [scan EXCEPT !.state = "QUEUED", !.queued = now]
    /\ wf' = [wf EXCEPT !.pc = "pending"]
    /\ UNCHANGED <<sessions, issues, callbacks, stateQ, bus, rp, child, sigHandler, api, now, lines, prior, runs, dups, rep, cbFailed, newer, runner, twice, coll>>

\* PUT /scans/<id>/control STOP, the repository write
ApiStopWrite ==
    /\ api.stops < MaxStops
    /\ scan' = [scan EXCEPT !.state = "STOPPING", !.queued = now]
    /\ api' = [api EXCEPT !.stops = @ + 1, !.pending = @ + 1,
                           !.loopStop = @ \/ (scan.state = "STARTED" /\ wf.admitted)]
    /\ UNCHANGED <<sessions, issues, callbacks, stateQ, wf, bus, rp, child, sigHandler, now, lines, prior, runs, dups, rep, cbFailed, newer, runner, twice, coll>>

\* PUT /scans/<id>/control STOP, scan_stop.apply_async
ApiStopEnqueue ==
    /\ api.pending > 0
    /\ stateQ' = Append(stateQ, Job("scan_stop", 0, NONE, NONE, "api", NONE))
    /\ api' = [api EXCEPT !.pending = api.pending - 1]
    /\ UNCHANGED <<scan, sessions, issues, callbacks, wf, bus, rp, child, sigHandler, now, lines, prior, runs, dups, rep, cbFailed, newer, runner, twice, coll>>

Tick ==
    /\ now < MaxTime
    /\ now' = now + 1
    /\ UNCHANGED <<scan, sessions, issues, callbacks, stateQ, wf, bus, rp, child, sigHandler, api, lines, prior, runs, dups, rep, cbFailed, newer, runner, twice, coll>>

\* ---- the state-queue jobs (tasks.py:55-276), applied one at a time in queue order

\* scan_start(scan_id, t)
ScanStart ==
    /\ HeadIs("scan_start")
    /\ LET j == Head(stateQ) IN
        /\ scan' = [scan EXCEPT !.state = "STARTED", !.started = j.t]
        /\ wf' = AckWf(j)
        /\ rp' = AckRp(j)
    /\ stateQ' = Tail(stateQ)
    /\ UNCHANGED <<sessions, issues, callbacks, bus, child, sigHandler, api, now, lines, prior, runs, dups, rep, cbFailed, newer, runner, twice, coll>>

\* a scan_finish that records FINISHED whatever state it was given
ScanFinishAsFinished(j) == [scan EXCEPT !.state = "FINISHED", !.finished = j.t]

\* scan_finish(scan_id, state, t, failure): the scan document after the job
ScanFinishDoc(j) ==
    IF j.failure # NONE
    THEN [scan EXCEPT !.state = j.state, !.finished = j.t, !.failure = j.failure]
    ELSE [scan EXCEPT !.state = j.state, !.finished = j.t]

\* a scan_finish that leaves the sessions as they are
KeepSessions == sessions

\* scan_finish: sessions still CREATED become CANCELLED
CancelCreated ==
    [i \in Sessions |->
        IF sessions[i].state = "CREATED"
        THEN [sessions[i] EXCEPT !.state = "CANCELLED"]
        ELSE sessions[i]]

\* a scan_finish in which a failed POST is not caught where it is raised: the
\* handler at the end of the job records FAILED and the sessions are left
ScanFinishUncaught(j, ok) ==
    IF ok
    THEN [scan |-> ScanFinishDoc(j), sessions |-> CancelCreated]
    ELSE [scan |-> [ScanFinishDoc(j) EXCEPT !.state = "FAILED"], sessions |-> sessions]

\* scan_finish: the scan and the sessions after the job, for a POST that succeeded
\* (ok) or failed; the failure is caught and logged (tasks.py:93-100) and the job
\* goes on
ScanFinishResult(j, ok) == [scan |-> ScanFinishDoc(j), sessions |-> CancelCreated]

\* scan_finish(scan_id, state, t, failure) on a scan whose configuration has a
\* callback url
ScanFinish ==
    /\ HeadIs("scan_finish")
    /\ \E ok \in BOOLEAN :
        LET j == Head(stateQ)
            r == ScanFinishResult(j, ok)
        IN  /\ scan' = r.scan
            /\ callbacks' = Append(callbacks, j.state)
            /\ cbFailed' = IF ok THEN cbFailed ELSE cbFailed + 1
            /\ sessions' = r.sessions
            /\ wf' = AckWf(j)
            /\ rp' = AckRp(j)
    /\ stateQ' = Tail(stateQ)
    /\ UNCHANGED <<issues, bus, child, sigHandler, api, now, lines, prior, runs, dups, rep, newer, runner, twice, coll>>

\* a scan_stop that stops the STARTED sessions only
StopStartedOnly ==
    [i \in Sessions |->
        IF sessions[i].state = "STARTED"
        THEN [sessions[i] EXCEPT !.state = "STOPPED"]
        ELSE sessions[i]]

\* scan_stop: sessions read as QUEUED or STARTED become STOPPED
StopSessions ==
    [i \in Sessions |->
        IF sessions[i].state \in {"QUEUED", "STARTED"}
        THEN [sessions[i] EXCEPT !.state = "STOPPED"]
        ELSE sessions[i]]

\* scan_stop: the sessions whose task is revoked ('_task' in session)
RevokedTasks == {i \in Sessions : sessions[i].task}

\* revoke(terminate=True, signal='SIGUSR1') signals the worker of a running task
SignalledTasks == {i \in RevokedTasks : bus[i].st = "running"}

\* with SIG_DFL the signal ends the worker process
KilledTasks == IF sigHandler = 0 THEN SignalledTasks ELSE {}

\* the sessions that are QUEUED, dispatched to the plugin queue and without a child
Dispatched ==
    {i \in Sessions : sessions[i].state = "QUEUED" /\ bus[i].st \in {"pending", "running"}
                                                   /\ child[i].st = "none"}

\* scan_stop(scan_id); announce: the bus reports a signalled running task as revoked;
\* api.preSpawn remembers the sessions this stop found dispatched and not yet spawned,
\* api.revoked the sessions whose task it revoked
ScanStop ==
    /\ HeadIs("scan_stop")
    /\ scan' = [scan EXCEPT !.state = "STOPPED", !.started = now]
    /\ sessions' = StopSessions
    /\ \E announce \in BOOLEAN :
        bus' = [i \in Sessions |->
                  IF i \in RevokedTasks /\ bus[i].st = "pending"
                  THEN [bus[i] EXCEPT !.st = "discarded", !.backend = "REVOKED"]
                  ELSE IF i \in KilledTasks
                  THEN [bus[i] EXCEPT !.st = "ended", !.backend = "REVOKED"]
                  ELSE IF i \in SignalledTasks /\ announce
                  THEN [bus[i] EXCEPT !.backend = "REVOKED"]
                  ELSE bus[i]]
    /\ rp' = [i \in Sessions |->
                IF i \in KilledTasks THEN [rp[i] EXCEPT !.pc = "killed"] ELSE rp[i]]
    /\ child' = IF SignalledTasks # {} /\ sigHandler # 0 /\ child[sigHandler].st = "running"
                THEN [child EXCEPT ![sigHandler].sig = TRUE]
                ELSE child
    /\ api' = [api EXCEPT !.preSpawn = @ \cup Dispatched, !.revoked = @ \cup RevokedTasks]
    /\ stateQ' = Tail(stateQ)
    /\ UNCHANGED <<issues, callbacks, wf, sigHandler, now, lines, prior, runs, dups, rep, cbFailed, newer, runner, twice, coll>>

\* session_queue(scan_id, session_id, t)
SessionQueue ==
    /\ HeadIs("session_queue")
    /\ LET j == Head(stateQ) IN
        /\ sessions' = [sessions EXCEPT ![j.sid].state = "QUEUED"]
        /\ wf' = AckWf(j)
        /\ rp' = AckRp(j)
    /\ stateQ' = Tail(stateQ)
    /\ UNCHANGED <<scan, issues, callbacks, bus, child, sigHandler, api, now, lines, prior, runs, dups, rep, cbFailed, newer, runner, twice, coll>>

\* session_start(scan_id, session_id, t)
SessionStart ==
    /\ HeadIs("session_start")
    /\ LET j == Head(stateQ) IN
        /\ sessions' = [sessions EXCEPT ![j.sid].state = "STARTED"]
        /\ wf' = AckWf(j)
        /\ rp' = AckRp(j)
    /\ stateQ' = Tail(stateQ)
    /\ UNCHANGED <<scan, issues, callbacks, bus, child, sigHandler, api, now, lines, prior, runs, dups, rep, cbFailed, newer, runner, twice, coll>>

\* session_set_task_id(scan_id, session_id, task_id)
SessionSetTaskId ==
    /\ HeadIs("session_set_task_id")
    /\ LET j == Head(stateQ) IN
        /\ sessions' = [sessions EXCEPT ![j.sid].task = TRUE]
        /\ wf' = AckWf(j)
        /\ rp' = AckRp(j)
    /\ stateQ' = Tail(stateQ)
    /\ UNCHANGED <<scan, issues, callbacks, bus, child, sigHandler, api, now, lines, prior, runs, dups, rep, cbFailed, newer, runner, twice, coll>>

\* session_report_issue: insert the document if absent, else patch Severity
UpsertIssue(j) ==
    IF ~issues[j.id].exists
    THEN [issues EXCEPT ![j.id] = [exists |-> TRUE, Severity |-> j.sev,
                                   Status |-> NONE, OldStatus |-> NONE]]
    ELSE [issues EXCEPT ![j.id].Severity = j.sev]

SessionReportIssue ==
    /\ HeadIs("session_report_issue")
    /\ LET j == Head(stateQ) IN
        /\ issues' = UpsertIssue(j)
        /\ sessions' = [sessions EXCEPT ![j.sid].issues = Append(@, j.id)]
        /\ wf' = AckWf(j)
        /\ rp' = AckRp(j)
    /\ stateQ' = Tail(stateQ)
    /\ UNCHANGED <<scan, callbacks, bus, child, sigHandler, api, now, lines, prior, runs, dups, rep, cbFailed, newer, runner, twice, coll>>

\* session_report_artifact(scan_id, session_id, artifact)
SessionReportArtifact ==
    /\ HeadIs("session_report_artifact")
    /\ LET j == Head(stateQ) IN
        /\ sessions' = [sessions EXCEPT ![j.sid].artifacts = @ + 1]
        /\ wf' = AckWf(j)
        /\ rp' = AckRp(j)
    /\ stateQ' = Tail(stateQ)
    /\ UNCHANGED <<scan, issues, callbacks, bus, child, sigHandler, api, now, lines, prior, runs, dups, rep, cbFailed, newer, runner, twice, coll>>

\* session_finish(scan_id, session_id, state, t, failure): the session after the job
SessionFinishDoc(j) ==
    IF j.failure # NONE
    THEN [sessions[j.sid] EXCEPT !.state = j.state, !.failure = j.failure]
    ELSE [sessions[j.sid] EXCEPT !.state = j.state]

SessionFinish ==
    /\ HeadIs("session_finish")
    /\ LET j == Head(stateQ) IN
        /\ sessions' = [sessions EXCEPT ![j.sid] = SessionFinishDoc(j)]
        /\ wf' = AckWf(j)
        /\ rp' = AckRp(j)
    /\ stateQ' = Tail(stateQ)
    /\ UNCHANGED <<scan, issues, callbacks, bus, child, sigHandler, api, now, lines, prior, runs, dups, rep, cbFailed, newer, runner, twice, coll>>

\* the issue ids referenced by the sessions of the scan
ReferencedIssues ==
    UNION {{sessions[i].issues[k] : k \in 1..Len(sessions[i].issues)} : i \in Sessions}

\* set_status_issues(scan_id) when the scan is the only one of its (target, plan):
\* every referenced issue becomes Current with OldStatus "-"
FirstScanStatus ==
    [x \in IssueIds |->
        IF x \in ReferencedIssues /\ issues[x].exists
        THEN [issues[x] EXCEPT !.Status = "Current", !.OldStatus = "-"]
        ELSE issues[x]]

\* the elements of a sequence
Range(q) == {q[k] : k \in 1..Len(q)}

\* list_scan (tasks.py:216): the scans of the target and plan of scan_id, newest
\* first, each with the issue lists of its sessions
ListScan ==
    (IF newer.exists THEN <<[id |-> "newer", issues |-> newer.issues]>> ELSE <<>>)
    \o <<[id |-> "scan_id", issues |-> [i \in Sessions |-> sessions[i].issues]]>>
    \o (IF prior.exists THEN <<[id |-> "prior", issues |-> prior.issues]>> ELSE <<>>)

\* last_scan = list_scan[0] (tasks.py:217)
LastScan == ListScan[1]

\* second_to_last_scan = list_scan[1] (tasks.py:221); no lists when there is none
SecondToLast ==
    IF Len(ListScan) > 1 THEN ListScan[2]
    ELSE [id |-> NONE, issues |-> [i \in Sessions |-> <<>>]]

\* the issue lists of the sessions i..NSessions of the last scan, one after the other
RECURSIVE LastIssuesFrom(_)
LastIssuesFrom(i) ==
    IF i \in Sessions THEN LastScan.issues[i] \o LastIssuesFrom(i + 1) ELSE <<>>

\* "issue in second_session['issues']" for some session of the previous scan
InSecondToLast(x) == \E p \in Sessions : x \in Range(SecondToLast.issues[p])

\* old_issue['Status'] raises: find_one returned None, or a document that has no
\* Status (tasks.py:231-233, 261-269)
Unreadable(d) == ~d.exists \/ d.Status = NONE

\* first pass (tasks.py:224-240) over the issues q of the last scan: each becomes
\* Current; OldStatus is the Status read just before, or "-" for a new issue; a
\* read that raises ends the job with the writes made so far
RECURSIVE MarkCurrent(_, _)
MarkCurrent(iss, q) ==
    IF q = <<>> THEN [issues |-> iss, failed |-> FALSE]
    ELSE LET x == Head(q) IN
         IF InSecondToLast(x)
         THEN IF Unreadable(iss[x])
              THEN [issues |-> iss, failed |-> TRUE]
              ELSE MarkCurrent([iss EXCEPT ![x].Status = "Current",
                                           ![x].OldStatus = iss[x].Status],
                               Tail(q))
         ELSE MarkCurrent(IF ~iss[x].exists THEN iss
                          ELSE [iss EXCEPT ![x].Status = "Current", ![x].OldStatus = "-"],
                          Tail(q))

\* session["state"] is not "FINISHED" (tasks.py:266): an identity test between the
\* unicode object read from the database and a str literal, which are never the
\* same object
IsNotFinished(state) == TRUE

\* the session whose state tasks.py:266 reads: the variable of the loop at
\* tasks.py:248, which stops at session p only when the issue is found there and
\* otherwise runs to the last session
TestedSession(p, found) == IF found THEN p ELSE NSessions

\* the pairs <<p, x>> of the second pass: for each session p of the previous scan,
\* from session i on, each issue x of its list (tasks.py:242-244)
RECURSIVE PriorPairsFrom(_)
PriorPairsFrom(i) ==
    IF i \in Sessions
    THEN [k \in 1..Len(SecondToLast.issues[i]) |-> <<i, SecondToLast.issues[i][k]>>]
         \o PriorPairsFrom(i + 1)
    ELSE <<>>

\* second pass (tasks.py:242-269) over the pairs q; st holds the issues, the
\* persisted sessions and whether a read raised; the reference is pushed before the
\* issue is read, by an update that selects scan_id and the id of a session of
\* last_scan: it matches a document only when last_scan is scan_id
RECURSIVE MarkFixed(_, _)
MarkFixed(st, q) ==
    IF q = <<>> \/ st.failed THEN st
    ELSE LET p      == Head(q)[1]
             x      == Head(q)[2]
             found  == x \in Range(LastScan.issues[p])
             old    == st.issues[x].Status
             new    == IF IsNotFinished(sessions[TestedSession(p, found)].state)
                       THEN old ELSE "Fixed"
             pushed == IF LastScan.id = "scan_id"
                       THEN [st.sessions EXCEPT ![p].issues = Append(@, x)]
                       ELSE st.sessions
         IN  MarkFixed(
                IF found THEN st
                ELSE IF Unreadable(st.issues[x])
                THEN [issues |-> st.issues, sessions |-> pushed, failed |-> TRUE]
                ELSE [issues   |-> [st.issues EXCEPT ![x].Status = new, ![x].OldStatus = old],
                      sessions |-> pushed, failed |-> FALSE],
                Tail(q))

\* set_status_issues(scan_id): the issues and the sessions after the job, and
\* whether the job raised
Correlated ==
    IF Len(ListScan) > 1
    THEN LET c == MarkCurrent(issues, LastIssuesFrom(1))
         IN  MarkFixed([issues |-> c.issues, sessions |-> sessions, failed |-> c.failed],
                       PriorPairsFrom(1))
    ELSE [issues |-> FirstScanStatus, sessions |-> sessions, failed |-> FALSE]

\* the caller of set_status_issues resumes: with the result, or, when the job
\* raised, with the exception that get() raises again in run_plugin (tasks.py:562-568);
\* corr keeps the session's state at that moment
CorrelatorAck(j) ==
    IF Correlated.failed
    THEN [rp EXCEPT ![j.sid].pc = "raised", ![j.sid].corr = sessions[j.sid].state]
    ELSE AckRp(j)

SetStatusIssues ==
    /\ HeadIs("set_status_issues")
    /\ LET j == Head(stateQ) IN
        /\ issues' = Correlated.issues
        /\ sessions' = Correlated.sessions
        /\ wf' = AckWf(j)
        /\ rp' = CorrelatorAck(j)
    /\ stateQ' = Tail(stateQ)
    /\ UNCHANGED <<scan, callbacks, bus, child, sigHandler, api, now, lines, prior, runs, dups, rep, cbFailed, newer, runner, twice, coll>>

\* ---- the scan task (tasks.py:615-772)

\* a scan task that goes on whatever state it reads
WfBeginUnchecked ==
    /\ wf.pc = "pending"
    /\ wf' = [wf EXCEPT !.pc = "start",
                        !.mem = [i \in Sessions |-> sessions[i].state],
                        !.memScan = scan.state]
    /\ UNCHANGED <<scan, sessions, issues, callbacks, stateQ, bus, rp, child, sigHandler, api, now, lines, prior, runs, dups, rep, cbFailed, newer, runner, twice, coll>>

\* get_scan and the state check (tasks.py:624-635)
WfBegin ==
    /\ wf.pc = "pending"
    /\ wf' = IF scan.state # "QUEUED"
             THEN [wf EXCEPT !.pc = "done"]
             ELSE [wf EXCEPT !.pc = "start",
                             !.mem = [i \in Sessions |-> sessions[i].state],
                             !.memScan = scan.state]
    /\ UNCHANGED <<scan, sessions, issues, callbacks, stateQ, bus, rp, child, sigHandler, api, now, lines, prior, runs, dups, rep, cbFailed, newer, runner, twice, coll>>

\* scan['state'] = 'STARTED'; send scan_start (tasks.py:641-644)
WfScanStart ==
    /\ wf.pc = "start"
    /\ wf' = [wf EXCEPT !.pc = "blocked", !.memScan = "STARTED"]
    /\ stateQ' = Append(stateQ, Job("scan_start", 0, NONE, NONE, "wf", "admission"))
    /\ UNCHANGED <<scan, sessions, issues, callbacks, bus, rp, child, sigHandler, api, now, lines, prior, runs, dups, rep, cbFailed, newer, runner, twice, coll>>

\* where the workflow goes when the session loop is at index i
LoopAt(i) == IF i \in Sessions THEN "queue" ELSE "classify"

\* a handler that records FAILED without a failure
HandlerJobBare == Job("scan_finish", 0, "FAILED", NONE, "wf", "done")

\* the scan_finish sent by the exception handler of the scan task, with its failure
\* record (tasks.py:763-770)
HandlerJob == Job("scan_finish", 0, "FAILED", "backend-exception", "wf", "done")

\* the access lists, the site lookup and the ownership check (tasks.py:650-673);
\* a failing lookup raises and is handled at tasks.py:753-770
WfAdmission ==
    /\ wf.pc = "admission"
    /\ \E adm \in Admission :
        IF adm = "ok"
        THEN /\ wf' = [wf EXCEPT !.pc = LoopAt(1), !.i = 1, !.admitted = TRUE, !.adm = adm]
             /\ UNCHANGED stateQ
        ELSE /\ wf' = [wf EXCEPT !.pc = "blocked", !.adm = adm]
             /\ stateQ' = Append(stateQ,
                    CASE adm = "blacklisted" ->
                            Job("scan_finish", 0, "ABORTED", "target-blacklisted", "wf", "done")
                      [] adm = "null_site" ->
                            Job("scan_finish", 0, "ABORTED", NONE, "wf", "done")
                      [] adm = "not_verified" ->
                            Job("scan_finish", 0, "ABORTED",
                                "target-ownership-verification-failed", "wf", "done")
                      [] adm \in {"lookup_error", "no_site"} -> HandlerJob)
    /\ UNCHANGED <<scan, sessions, issues, callbacks, bus, rp, child, sigHandler, api, now, lines, prior, runs, dups, rep, cbFailed, newer, runner, twice, coll>>

\* session['state'] = 'QUEUED'; send session_queue (tasks.py:685-689)
WfSessionQueue ==
    /\ wf.pc = "queue"
    /\ wf' = [wf EXCEPT !.pc = "blocked", !.mem[wf.i] = "QUEUED"]
    /\ stateQ' = Append(stateQ, Job("session_queue", wf.i, NONE, NONE, "wf", "dispatch"))
    /\ UNCHANGED <<scan, sessions, issues, callbacks, bus, rp, child, sigHandler, api, now, lines, prior, runs, dups, rep, cbFailed, newer, runner, twice, coll>>

\* send_task run_plugin on the plugin queue (tasks.py:697-700)
WfDispatch ==
    /\ wf.pc = "dispatch"
    /\ bus' = [bus EXCEPT ![wf.i].st = "pending"]
    /\ wf' = [wf EXCEPT !.pc = "settask"]
    /\ UNCHANGED <<scan, sessions, issues, callbacks, stateQ, rp, child, sigHandler, api, now, lines, prior, runs, dups, rep, cbFailed, newer, runner, twice, coll>>

\* send session_set_task_id (tasks.py:703-705)
WfSetTaskId ==
    /\ wf.pc = "settask"
    /\ wf' = [wf EXCEPT !.pc = "blocked"]
    /\ stateQ' = Append(stateQ, Job("session_set_task_id", wf.i, NONE, NONE, "wf", "wait"))
    /\ UNCHANGED <<scan, sessions, issues, callbacks, bus, rp, child, sigHandler, api, now, lines, prior, runs, dups, rep, cbFailed, newer, runner, twice, coll>>

\* result.get(): the task's return value, or STOPPED when the task was revoked
PluginResult(i) == IF bus[i].backend = "REVOKED" THEN "STOPPED" ELSE bus[i].result

\* result.get() and session['state'] = plugin_result (tasks.py:707-718)
WfResult ==
    /\ wf.pc = "wait"
    /\ bus[wf.i].backend \in {"REVOKED", "SUCCESS"}
    /\ LET r == PluginResult(wf.i) IN
        wf' = IF r \in {"ABORTED", "STOPPED"}
              THEN [wf EXCEPT !.pc = "stopscan", !.mem[wf.i] = r]
              ELSE [wf EXCEPT !.pc = LoopAt(wf.i + 1), !.i = wf.i + 1, !.mem[wf.i] = r]
    /\ UNCHANGED <<scan, sessions, issues, callbacks, stateQ, bus, rp, child, sigHandler, api, now, lines, prior, runs, dups, rep, cbFailed, newer, runner, twice, coll>>

\* send scan_finish with the plugin's result (tasks.py:721-723)
WfStopScan ==
    /\ wf.pc = "stopscan"
    /\ wf' = [wf EXCEPT !.pc = "blocked"]
    /\ stateQ' = Append(stateQ, Job("scan_finish", 0, wf.mem[wf.i], NONE, "wf", "cancel"))
    /\ UNCHANGED <<scan, sessions, issues, callbacks, bus, rp, child, sigHandler, api, now, lines, prior, runs, dups, rep, cbFailed, newer, runner, twice, coll>>

\* the sessions the workflow's copy of the scan still holds as CREATED
MemCreated == {s \in Sessions : wf.mem[s] = "CREATED"}

\* mark the remaining sessions CANCELLED, then return (tasks.py:725-733)
WfCancel ==
    /\ wf.pc = "cancel"
    /\ IF MemCreated = {}
       THEN /\ wf' = [wf EXCEPT !.pc = "done"]
            /\ UNCHANGED stateQ
       ELSE LET s == CHOOSE x \in MemCreated : \A y \in MemCreated : x <= y IN
            /\ wf' = [wf EXCEPT !.pc = "blocked", !.mem[s] = "CANCELLED"]
            /\ stateQ' = Append(stateQ, Job("session_finish", s, "CANCELLED", NONE, "wf", "cancel"))
    /\ UNCHANGED <<scan, sessions, issues, callbacks, bus, rp, child, sigHandler, api, now, lines, prior, runs, dups, rep, cbFailed, newer, runner, twice, coll>>

\* scan['state']: FAILED if one plugin returned FAILED, else FINISHED (tasks.py:739-746)
Classify(mem) == IF \E s \in Sessions : mem[s] = "FAILED" THEN "FAILED" ELSE "FINISHED"

\* classify and send scan_finish (tasks.py:739-751)
WfClassify ==
    /\ wf.pc = "classify"
    /\ wf' = [wf EXCEPT !.pc = "blocked", !.memScan = Classify(wf.mem)]
    /\ stateQ' = Append(stateQ, Job("scan_finish", 0, Classify(wf.mem), NONE, "wf", "done"))
    /\ UNCHANGED <<scan, sessions, issues, callbacks, bus, rp, child, sigHandler, api, now, lines, prior, runs, dups, rep, cbFailed, newer, runner, twice, coll>>

\* ---- run_plugin (tasks.py:428-588) and the plugin child

\* run_plugin returns: the value is stored as the task's result
Returned(i, value) == [bus EXCEPT ![i] = [st |-> "ended", backend |-> "SUCCESS", result |-> value]]

\* the pre-flight checks on the scan just read (tasks.py:445-464)
PreflightOk(i) ==
    /\ scan.state \notin {"STOPPING", "STOPPED"}
    /\ scan.state = "STARTED"
    /\ sessions[i].state = "QUEUED"

\* a worker takes the task, reads the scan and checks it (tasks.py:440-464);
\* fresh: the task runs in a worker process that ran no plugin before
RpPreflight(i) ==
    /\ bus[i].st = "pending"
    /\ \E fresh \in BOOLEAN : sigHandler' = IF fresh THEN 0 ELSE sigHandler
    /\ IF PreflightOk(i)
       THEN /\ bus' = [bus EXCEPT ![i].st = "running"]
            /\ rp' = [rp EXCEPT ![i].pc = "start"]
       ELSE /\ bus' = Returned(i, NONE)
            /\ rp' = [rp EXCEPT ![i].pc = "refused"]
    /\ UNCHANGED <<scan, sessions, issues, callbacks, stateQ, wf, child, api, now, lines, prior, runs, dups, rep, cbFailed, newer, runner, twice, coll>>

\* send session_start (tasks.py:470-472)
RpStart(i) ==
    /\ rp[i].pc = "start"
    /\ rp' = [rp EXCEPT ![i].pc = "blocked"]
    /\ stateQ' = Append(stateQ, Job("session_start", i, NONE, NONE, "rp", "spawn"))
    /\ UNCHANGED <<scan, sessions, issues, callbacks, wf, bus, child, sigHandler, api, now, lines, prior, runs, dups, rep, cbFailed, newer, runner, twice, coll>>

\* subprocess.Popen (tasks.py:500)
RpSpawn(i) ==
    /\ rp[i].pc = "spawn"
    /\ child' = [child EXCEPT ![i].st = "running"]
    /\ rp' = [rp EXCEPT ![i].pc = "install"]
    /\ UNCHANGED <<scan, sessions, issues, callbacks, stateQ, wf, bus, sigHandler, api, now, lines, prior, runs, dups, rep, cbFailed, newer, runner, twice, coll>>

\* signal.signal(SIGUSR1, handler forwarding to p) and the reader thread (tasks.py:502-507)
RpInstall(i) ==
    /\ rp[i].pc = "install"
    /\ sigHandler' = i
    /\ rp' = [rp EXCEPT ![i].pc = "loop"]
    /\ UNCHANGED <<scan, sessions, issues, callbacks, stateQ, wf, bus, child, api, now, lines, prior, runs, dups, rep, cbFailed, newer, runner, twice, coll>>

\* the failure recorded when run_plugin catches an exception (tasks.py:578-584)
ExceptionJob(i) == Job("session_finish", i, "FAILED", "Exception", "rp", "retfailed")

\* data.failure of a finish message as session_finish receives it
FailureArg(m) == IF m.failure = "set" THEN "Plugin" ELSE NONE

\* a run_plugin that goes on persisting issues after a finish message
LateMessagePersisted(i, m) ==
    IF m.kind = "issue"
    THEN <<"blocked", rp[i].finished, IssueJob(i, m, "loop")>>
    ELSE <<"returned_early", rp[i].finished, NoJob>>

\* a line taken after a finish message: logged, and run_plugin returns
\* (tasks.py:517-519)
OnLateMessage(i, m) == <<"returned_early", rp[i].finished, NoJob>>

\* what one line does to run_plugin (tasks.py:515-545): <<pc, finished, job sent>>
OnMessage(i, m) ==
    CASE rp[i].finished # NONE ->
            OnLateMessage(i, m)
      [] rp[i].finished = NONE /\ m.kind = "garbage" ->
            <<"blocked", rp[i].finished, ExceptionJob(i)>>
      [] rp[i].finished = NONE /\ m.kind = "issue" ->
            <<"blocked", rp[i].finished, IssueJob(i, m, "loop")>>
      [] rp[i].finished = NONE /\ m.kind = "artifact" ->
            <<"blocked", rp[i].finished,
              Job("session_report_artifact", i, NONE, NONE, "rp", "loop")>>
      [] rp[i].finished = NONE /\ m.kind = "progress" ->
            <<"loop", rp[i].finished, NoJob>>
      [] rp[i].finished = NONE /\ m.kind = "finish" ->
            IF m.state \notin FinishStates
            THEN <<"loop", m.state, NoJob>>
            ELSE IF m.failure = "missing"
            THEN <<"blocked", m.state, ExceptionJob(i)>>
            ELSE <<"blocked", m.state,
                   Job("session_finish", i, m.state, FailureArg(m), "rp", "loop")>>

\* the line is the finish message run_plugin acts on and its data has no
\* "failure" key (tasks.py:540-544)
NoFailureField(i, m) == rp[i].finished = NONE /\ m.kind = "finish" /\ m.failure = "missing"

\* the child writes a line and the loop of run_plugin takes it (tasks.py:509-548)
RpMessage(i) ==
    /\ rp[i].pc = "loop"
    /\ child[i].st = "running"
    /\ lines > 0
    /\ \E m \in Msgs :
        LET r == OnMessage(i, m) IN
        /\ rp' = [rp EXCEPT ![i].pc = r[1], ![i].finished = r[2],
                            ![i].nofail = @ \/ NoFailureField(i, m)]
        /\ lines' = lines - 1
        /\ stateQ' = IF r[3].op = "none" THEN stateQ ELSE Append(stateQ, r[3])
        /\ bus' = IF r[1] = "returned_early" THEN Returned(i, NONE) ELSE bus
    /\ UNCHANGED <<scan, sessions, issues, callbacks, wf, child, sigHandler, api, now, prior, runs, dups, rep, cbFailed, newer, runner, twice, coll>>

\* the child exits: the reader sees end of file, the loop breaks, p.wait() returns
\* (tasks.py:512-513, 550)
RpEof(i) ==
    /\ rp[i].pc = "loop"
    /\ child[i].st = "running"
    /\ child' = [child EXCEPT ![i].st = "exited"]
    /\ rp' = [rp EXCEPT ![i].pc = "after"]
    /\ UNCHANGED <<scan, sessions, issues, callbacks, stateQ, wf, bus, sigHandler, api, now, lines, prior, runs, dups, rep, cbFailed, newer, runner, twice, coll>>

\* a session_finish that records the unfinished session as STOPPED without a failure
UnfinishedAsStopped(i) ==
    Job("session_finish", i, "STOPPED", NONE, "rp", "correlate")

\* the failure synthesised when no finish was seen (tasks.py:554-560)
NotFinishedJob(i) ==
    Job("session_finish", i, "FAILED", "The plugin did not finish correctly", "rp", "correlate")

\* signal.signal(SIGUSR1, SIG_DFL) (tasks.py:552)
RpResetSignal(i) ==
    /\ rp[i].pc = "after"
    /\ sigHandler' = 0
    /\ rp' = [rp EXCEPT ![i].pc = "synth"]
    /\ UNCHANGED <<scan, sessions, issues, callbacks, stateQ, wf, bus, child, api, now, lines, prior, runs, dups, rep, cbFailed, newer, runner, twice, coll>>

\* without a finish send session_finish FAILED, else go on to set_status_issues
\* (tasks.py:554-564)
RpAfter(i) ==
    /\ rp[i].pc = "synth"
    /\ rp' = [rp EXCEPT ![i].pc = "blocked"]
    /\ stateQ' = IF rp[i].finished = NONE
                 THEN Append(stateQ, NotFinishedJob(i))
                 ELSE Append(stateQ, Job("set_status_issues", i, NONE, NONE, "rp", "return"))
    /\ UNCHANGED <<scan, sessions, issues, callbacks, wf, bus, child, sigHandler, api, now, lines, prior, runs, dups, rep, cbFailed, newer, runner, twice, coll>>

\* send set_status_issues after the synthesised failure (tasks.py:562-564)
RpCorrelate(i) ==
    /\ rp[i].pc = "correlate"
    /\ rp' = [rp EXCEPT ![i].pc = "blocked"]
    /\ stateQ' = Append(stateQ, Job("set_status_issues", i, NONE, NONE, "rp", "return"))
    /\ UNCHANGED <<scan, sessions, issues, callbacks, wf, bus, child, sigHandler, api, now, lines, prior, runs, dups, rep, cbFailed, newer, runner, twice, coll>>

\* the value run_plugin returns at its end (tasks.py:566)
ReturnValue(i) == rp[i].finished

\* return finished (tasks.py:566)
RpReturn(i) ==
    /\ rp[i].pc = "return"
    /\ bus' = Returned(i, ReturnValue(i))
    /\ rp' = [rp EXCEPT ![i].pc = "returned"]
    /\ UNCHANGED <<scan, sessions, issues, callbacks, stateQ, wf, child, sigHandler, api, now, lines, prior, runs, dups, rep, cbFailed, newer, runner, twice, coll>>

\* return "FAILED" from the exception handler (tasks.py:588)
RpReturnFailed(i) ==
    /\ rp[i].pc = "retfailed"
    /\ bus' = Returned(i, "FAILED")
    /\ rp' = [rp EXCEPT ![i].pc = "returned_failed"]
    /\ UNCHANGED <<scan, sessions, issues, callbacks, stateQ, wf, child, sigHandler, api, now, lines, prior, runs, dups, rep, cbFailed, newer, runner, twice, coll>>

\* ---- the system

Next ==
    \/ ApiStart
    \/ ApiStopWrite
    \/ ApiStopEnqueue
    \/ ScanStart
    \/ ScanFinish
    \/ ScanStop
    \/ SessionQueue
    \/ SessionStart
    \/ SessionSetTaskId
    \/ SessionReportIssue
    \/ SessionReportArtifact
    \/ SessionFinish
    \/ SetStatusIssues
    \/ WfBegin
    \/ WfScanStart
    \/ WfAdmission
    \/ WfSessionQueue
    \/ WfDispatch
    \/ WfSetTaskId
    \/ WfResult
    \/ WfStopScan
    \/ WfCancel
    \/ WfClassify
    \/ \E i \in Sessions :
        \/ RpPreflight(i)
        \/ RpStart(i)
        \/ RpSpawn(i)
        \/ RpInstall(i)
        \/ RpMessage(i)
        \/ RpEof(i)
        \/ RpResetSignal(i)
        \/ RpAfter(i)
        \/ RpCorrelate(i)
        \/ RpReturn(i)
        \/ RpReturnFailed(i)

Spec == Init /\ [][Next]_vars

\* the same system with the wall clock advancing
NextClock == Next \/ Tick

SpecClock == Init /\ [][NextClock]_vars

\* ---- the same system with the scheduling of the workers: a job at the head of
\* the state queue is applied, a task that can take its next step takes it; what the
\* user and the plugin child do (START, STOP, writing a line, exiting) is left free

Scheduled ==
    \/ ApiStopEnqueue
    \/ ScanStart
    \/ ScanFinish
    \/ ScanStop
    \/ SessionQueue
    \/ SessionStart
    \/ SessionSetTaskId
    \/ SessionReportIssue
    \/ SessionReportArtifact
    \/ SessionFinish
    \/ SetStatusIssues
    \/ WfBegin
    \/ WfScanStart
    \/ WfAdmission
    \/ WfSessionQueue
    \/ WfDispatch
    \/ WfSetTaskId
    \/ WfResult
    \/ WfStopScan
    \/ WfCancel
    \/ WfClassify
    \/ \E i \in Sessions :
        \/ RpPreflight(i)
        \/ RpStart(i)
        \/ RpSpawn(i)
        \/ RpInstall(i)
        \/ RpResetSignal(i)
        \/ RpAfter(i)
        \/ RpCorrelate(i)
        \/ RpReturn(i)
        \/ RpReturnFailed(i)

SpecLive == Init /\ [][Next]_vars /\ WF_vars(Scheduled)

\* ---- the same system with calls of the scan task that raise

\* the state jobs of the scan task whose get() can raise; scan_finish catches what
\* it raises itself (tasks.py:113-122)
RaisingJobs == {"scan_start", "session_queue", "session_set_task_id", "session_finish"}

\* a state job sent by the scan task fails before its write: get() raises in the
\* scan task, which enters its handler (tasks.py:753)
WfJobFails ==
    /\ stateQ # <<>>
    /\ Head(stateQ).who = "wf"
    /\ Head(stateQ).op \in RaisingJobs
    /\ wf.pc = "blocked"
    /\ stateQ' = Tail(stateQ)
    /\ wf' = [wf EXCEPT !.pc = "handler", !.raised = TRUE]
    /\ UNCHANGED <<scan, sessions, issues, callbacks, bus, rp, child, sigHandler, api, now, lines, prior, runs, dups, rep, cbFailed, newer, runner, twice, coll>>

\* result.get() raises something other than TaskRevokedError (tasks.py:707-710)
WfWaitRaises ==
    /\ wf.pc = "wait"
    /\ wf' = [wf EXCEPT !.pc = "handler", !.raised = TRUE]
    /\ UNCHANGED <<scan, sessions, issues, callbacks, stateQ, bus, rp, child, sigHandler, api, now, lines, prior, runs, dups, rep, cbFailed, newer, runner, twice, coll>>

\* the handler sends scan_finish FAILED and the task returns (tasks.py:761-772)
WfHandler ==
    /\ wf.pc = "handler"
    /\ wf' = [wf EXCEPT !.pc = "blocked"]
    /\ stateQ' = Append(stateQ, HandlerJob)
    /\ UNCHANGED <<scan, sessions, issues, callbacks, bus, rp, child, sigHandler, api, now, lines, prior, runs, dups, rep, cbFailed, newer, runner, twice, coll>>

NextErr == Next \/ WfJobFails \/ WfWaitRaises \/ WfHandler

SpecErr == Init /\ [][NextErr]_vars

\* ---- the second scan of a target and plan, on which the previous scan reported
\* issue A in its first session and issue B in its second

PriorAB ==
    [exists |-> TRUE,
     issues |-> [i \in Sessions |-> IF i = 1 THEN <<"A">> ELSE IF i = 2 THEN <<"B">> ELSE <<>>]]

\* an issue as the correlator left it after the previous scan, its first
ReportedBefore == [exists |-> TRUE, Severity |-> "Low", Status |-> "Current", OldStatus |-> "-"]

InitPrior ==
    /\ scan = [state |-> "CREATED", queued |-> NoTime, started |-> NoTime,
               finished |-> NoTime, failure |-> NONE]
    /\ sessions = [i \in Sessions |->
                     [state |-> "CREATED", task |-> FALSE, issues |-> <<>>,
                      artifacts |-> 0, failure |-> NONE]]
    /\ issues = [x \in IssueIds |-> ReportedBefore]
    /\ callbacks = <<>>
    /\ stateQ = <<>>
    /\ wf = [pc |-> "idle", i |-> 1, mem |-> [i \in Sessions |-> "CREATED"],
             memScan |-> "CREATED", admitted |-> FALSE, adm |-> NONE, raised |-> FALSE]
    /\ bus = [i \in Sessions |-> [st |-> "none", backend |-> "PENDING", result |-> NONE]]
    /\ rp = [i \in Sessions |-> [pc |-> "none", finished |-> NONE, corr |-> NONE, nofail |-> FALSE]]
    /\ lines = MaxMsgsPrior
    /\ prior = PriorAB
    /\ runs = 0
    /\ dups = NoDups
    /\ rep = NoReports
    /\ cbFailed = 0
    /\ newer = NoNewer
    /\ runner = NoRunner
    /\ twice = NoStarts
    /\ coll = NoScans
    /\ child = [i \in Sessions |-> [st |-> "none", sig |-> FALSE]]
    /\ sigHandler = 0
    /\ api = [stops |-> 0, pending |-> 0, loopStop |-> FALSE, preSpawn |-> {}, revoked |-> {}]
    /\ now = 0

SpecPrior == InitPrior /\ [][Next]_vars

\* ---- the second scan of a target and plan whose previous scan reported A and B
\* and either was correlated or never was: then the issue documents have no Status

\* an issue as session_report_issue inserted it
Unlabelled == [exists |-> TRUE, Severity |-> "Low", Status |-> NONE, OldStatus |-> NONE]

InitRaw ==
    /\ scan = [state |-> "CREATED", queued |-> NoTime, started |-> NoTime,
               finished |-> NoTime, failure |-> NONE]
    /\ sessions = [i \in Sessions |->
                     [state |-> "CREATED", task |-> FALSE, issues |-> <<>>,
                      artifacts |-> 0, failure |-> NONE]]
    /\ issues \in {[x \in IssueIds |-> Unlabelled], [x \in IssueIds |-> ReportedBefore]}
    /\ callbacks = <<>>
    /\ stateQ = <<>>
    /\ wf = [pc |-> "idle", i |-> 1, mem |-> [i \in Sessions |-> "CREATED"],
             memScan |-> "CREATED", admitted |-> FALSE, adm |-> NONE, raised |-> FALSE]
    /\ bus = [i \in Sessions |-> [st |-> "none", backend |-> "PENDING", result |-> NONE]]
    /\ rp = [i \in Sessions |-> [pc |-> "none", finished |-> NONE, corr |-> NONE, nofail |-> FALSE]]
    /\ lines = MaxMsgs
    /\ prior = PriorAB
    /\ runs = 0
    /\ dups = NoDups
    /\ rep = NoReports
    /\ cbFailed = 0
    /\ newer = NoNewer
    /\ runner = NoRunner
    /\ twice = NoStarts
    /\ coll = NoScans
    /\ child = [i \in Sessions |-> [st |-> "none", sig |-> FALSE]]
    /\ sigHandler = 0
    /\ api = [stops |-> 0, pending |-> 0, loopStop |-> FALSE, preSpawn |-> {}, revoked |-> {}]
    /\ now = 0

\* run_plugin's handler after set_status_issues raised: send session_finish FAILED
\* (tasks.py:568-584)
RpCorrelatorRaised(i) ==
    /\ rp[i].pc = "raised"
    /\ rp' = [rp EXCEPT ![i].pc = "blocked"]
    /\ stateQ' = Append(stateQ, ExceptionJob(i))
    /\ UNCHANGED <<scan, sessions, issues, callbacks, wf, bus, child, sigHandler, api, now, lines, prior, runs, dups, rep, cbFailed, newer, runner, twice, coll>>

NextRaw == Next \/ \E i \in Sessions : RpCorrelatorRaised(i)

SpecRaw == InitRaw /\ [][NextRaw]_vars

\* ---- set_status_issues run alone on a last scan and a previous scan

\* the issue lists a session may hold
CorrLists == UNION {[1..n -> IssueIds] : n \in 0..MaxRefs}

\* the states of the sessions of the last scan
CorrStates == {"FINISHED", "FAILED"}

\* the scan has run, the scan before it in list_scan has been correlated: every
\* issue that one references has a Status
CorrScans ==
    /\ runner = NoRunner
    /\ twice = NoStarts
    /\ coll = NoScans
    /\ scan = [state |-> "FINISHED", queued |-> 0, started |-> 0, finished |-> 0, failure |-> NONE]
    /\ sessions \in [Sessions -> [state : CorrStates, task : {TRUE}, issues : CorrLists,
                                   artifacts : {0}, failure : {NONE}]]
    /\ prior \in [exists : {TRUE}, issues : [Sessions -> CorrLists]]
    /\ issues \in [IssueIds -> [exists : {TRUE}, Severity : {"Low"},
                                 Status : {NONE, "Current", "Fixed"}, OldStatus : {"-"}]]
    /\ \A x \in IssueIds : InSecondToLast(x) => issues[x].Status # NONE
    /\ callbacks = <<"FINISHED">>
    /\ stateQ = <<>>
    /\ wf = [pc |-> "done", i |-> NSessions + 1, mem |-> [i \in Sessions |-> sessions[i].state],
             memScan |-> "FINISHED", admitted |-> TRUE, adm |-> "ok", raised |-> FALSE]
    /\ bus = [i \in Sessions |->
                [st |-> "ended", backend |-> "SUCCESS", result |-> sessions[i].state]]
    /\ rp = [i \in Sessions |-> [pc |-> "returned", finished |-> sessions[i].state, corr |-> NONE, nofail |-> FALSE]]
    /\ lines = 0
    /\ runs = 0
    /\ dups = NoDups
    /\ rep = NoReports
    /\ cbFailed = 0
    /\ child = [i \in Sessions |-> [st |-> "exited", sig |-> FALSE]]
    /\ sigHandler = 0
    /\ api = [stops |-> 0, pending |-> 0, loopStop |-> FALSE, preSpawn |-> {}, revoked |-> {}]
    /\ now = 0

\* scan_id is the newest scan of its target and plan
InitCorr == newer = NoNewer /\ CorrScans

\* one run of set_status_issues
Correlate ==
    /\ runs < MaxRuns
    /\ runs' = runs + 1
    /\ issues' = Correlated.issues
    /\ sessions' = Correlated.sessions
    /\ UNCHANGED <<scan, callbacks, stateQ, wf, bus, rp, child, sigHandler, api, now, lines, prior, dups, rep, cbFailed, newer, runner, twice, coll>>

NextCorr == Correlate

SpecCorr == InitCorr /\ [][NextCorr]_vars

\* ---- set_status_issues run for a scan after which another scan of the same
\* target and plan was created (post_scan_create, views/scans.py:134-150)

\* the scan before scan_id has been correlated as well
InitNewer ==
    /\ newer \in [exists : {TRUE}, issues : [Sessions -> CorrLists]]
    /\ CorrScans
    /\ \A p \in Sessions : \A x \in Range(prior.issues[p]) : issues[x].Status # NONE

SpecNewer == InitNewer /\ [][NextCorr]_vars

\* ---- session_report_issue run by concurrent state workers: worker 1 serves a
\* session of this scan, worker 2 a session of the previous scan of the target, both
\* against the one issues collection

\* the scan is STARTED, its first session runs; the previous scan exists; an issue
\* is either unknown or was reported and correlated before
InitReport ==
    /\ scan = [state |-> "STARTED", queued |-> 0, started |-> 0, finished |-> NoTime,
               failure |-> NONE]
    /\ sessions = [i \in Sessions |->
                     [state |-> IF i = 1 THEN "STARTED" ELSE "CREATED", task |-> i = 1,
                      issues |-> <<>>, artifacts |-> 0, failure |-> NONE]]
    /\ issues \in [IssueIds -> {NoIssue, ReportedBefore}]
    /\ callbacks = <<>>
    /\ stateQ = <<>>
    /\ wf = [pc |-> "wait", i |-> 1,
             mem |-> [i \in Sessions |-> IF i = 1 THEN "QUEUED" ELSE "CREATED"],
             memScan |-> "STARTED", admitted |-> TRUE, adm |-> "ok", raised |-> FALSE]
    /\ bus = [i \in Sessions |->
                [st |-> IF i = 1 THEN "running" ELSE "none", backend |-> "PENDING",
                 result |-> NONE]]
    /\ rp = [i \in Sessions |-> [pc |-> IF i = 1 THEN "loop" ELSE "none", finished |-> NONE, corr |-> NONE, nofail |-> FALSE]]
    /\ lines = 0
    /\ prior = [exists |-> TRUE, issues |-> [i \in Sessions |-> <<>>]]
    /\ runs = 0
    /\ dups = NoDups
    /\ rep = NoReports
    /\ cbFailed = 0
    /\ newer = NoNewer
    /\ runner = NoRunner
    /\ twice = NoStarts
    /\ coll = NoScans
    /\ child = [i \in Sessions |-> [st |-> IF i = 1 THEN "running" ELSE "none", sig |-> FALSE]]
    /\ sigHandler = 1
    /\ api = [stops |-> 0, pending |-> 0, loopStop |-> FALSE, preSpawn |-> {}, revoked |-> {}]
    /\ now = 0

\* found_issue = issues.find_one({"Id": issue["Id"]}) (tasks.py:188) by worker r, for
\* a job that reports issue x with severity s
RepFind(r) ==
    /\ rep[r].pc = "idle"
    /\ rep[r].taken < MaxReports
    /\ \E x \in IssueIds, s \in Severities :
        rep' = [rep EXCEPT ![r] = [pc |-> IF issues[x].exists THEN "found" ELSE "absent",
                                   id |-> x, sev |-> s, taken |-> @.taken + 1]]
    /\ UNCHANGED <<scan, sessions, issues, callbacks, stateQ, wf, bus, rp, child, sigHandler, api,
                   now, lines, prior, runs, dups, cbFailed, newer, runner, twice, coll>>

\* issues.insert(issue) (tasks.py:190): one more document, whatever the collection
\* holds by now
RepInsert(r) ==
    /\ rep[r].pc = "absent"
    /\ IF issues[rep[r].id].exists
       THEN /\ dups' = [dups EXCEPT ![rep[r].id] = @ + 1]
            /\ UNCHANGED issues
       ELSE /\ issues' = [issues EXCEPT ![rep[r].id] =
                            [exists |-> TRUE, Severity |-> rep[r].sev,
                             Status |-> NONE, OldStatus |-> NONE]]
            /\ UNCHANGED dups
    /\ rep' = [rep EXCEPT ![r].pc = "push"]
    /\ UNCHANGED <<scan, sessions, callbacks, stateQ, wf, bus, rp, child, sigHandler, api,
                   now, lines, prior, runs, cbFailed, newer, runner, twice, coll>>

\* issues.update({"Id": ...}, {"$set": {"Severity": ...}}) (tasks.py:192): the first
\* document of the Id is patched
RepUpdate(r) ==
    /\ rep[r].pc = "found"
    /\ issues' = [issues EXCEPT ![rep[r].id].Severity = rep[r].sev]
    /\ rep' = [rep EXCEPT ![r].pc = "push"]
    /\ UNCHANGED <<scan, sessions, callbacks, stateQ, wf, bus, rp, child, sigHandler, api,
                   now, lines, prior, runs, dups, cbFailed, newer, runner, twice, coll>>

\* scans.update(..., {"$push": {"sessions.$.issues": issue["Id"]}}) (tasks.py:193-194)
RepPush(r) ==
    /\ rep[r].pc = "push"
    /\ IF r = 1
       THEN /\ sessions' = [sessions EXCEPT ![1].issues = Append(@, rep[r].id)]
            /\ UNCHANGED prior
       ELSE /\ prior' = [prior EXCEPT !.issues[1] = Append(@, rep[r].id)]
            /\ UNCHANGED sessions
    /\ rep' = [rep EXCEPT ![r].pc = "idle"]
    /\ UNCHANGED <<scan, issues, callbacks, stateQ, wf, bus, rp, child, sigHandler, api,
                   now, lines, runs, dups, cbFailed, newer, runner, twice, coll>>

NextReport ==
    \E r \in Reporters :
        \/ RepFind(r)
        \/ RepInsert(r)
        \/ RepUpdate(r)
        \/ RepPush(r)

SpecReport == InitReport /\ [][NextReport]_vars

\* ---- Runner: the reactor delivers the child's stdout to outReceived in chunks
\* (tasks.py:294-340); a string is the sequence of its characters

\* the characters of the stream: a digit, and the line terminator; a nonempty run
\* of digits is a JSON document, the empty string is not
Chars == {"1", "\n"}

\* the streams of at most n characters
Streams(n) == UNION {[1..k -> Chars] : k \in 0..n}

\* buffer.split("\n"): the pieces between the terminators, one more than there are
\* terminators
RECURSIVE Split(_)
Split(b) ==
    IF b = <<>> THEN <<(<<>>)>>
    ELSE LET r == Split(Tail(b)) IN
         IF Head(b) = "\n" THEN <<(<<>>)>> \o r
         ELSE <<(<<Head(b)>> \o Head(r))>> \o Tail(r)

\* buffer.endswith("\n")
EndsWithNewline(b) == b # <<>> /\ b[Len(b)] = "\n"

\* Runner._parseLines (tasks.py:307-314): <<complete lines, new buffer>>
ParseLines(b) ==
    LET l == Split(b) IN
    IF Len(l) = 1 THEN <<(<<>>), b>>
    ELSE IF EndsWithNewline(b) THEN <<SubSeq(l, 1, Len(l) - 1), <<>>>>
    ELSE <<SubSeq(l, 1, Len(l) - 1), l[Len(l)]>>

\* json.loads(message) raises (tasks.py:339): over Chars, on the empty string only
LoadsRaises(line) == line = <<>>

\* the lines of l that reach the callback: _process_message raises at the first
\* line that is not JSON and ends the loop of outReceived (tasks.py:321-322, 337-340)
RECURSIVE Processed(_)
Processed(l) ==
    IF l = <<>> \/ LoadsRaises(Head(l)) THEN <<>>
    ELSE <<Head(l)>> \o Processed(Tail(l))

\* one scan is CREATED and a Runner is about to read a stream
InitLines ==
    /\ scan = [state |-> "CREATED", queued |-> NoTime, started |-> NoTime,
               finished |-> NoTime, failure |-> NONE]
    /\ sessions = [i \in Sessions |->
                     [state |-> "CREATED", task |-> FALSE, issues |-> <<>>,
                      artifacts |-> 0, failure |-> NONE]]
    /\ issues = [x \in IssueIds |-> NoIssue]
    /\ callbacks = <<>>
    /\ stateQ = <<>>
    /\ wf = [pc |-> "idle", i |-> 1, mem |-> [i \in Sessions |-> "CREATED"],
             memScan |-> "CREATED", admitted |-> FALSE, adm |-> NONE, raised |-> FALSE]
    /\ bus = [i \in Sessions |-> [st |-> "none", backend |-> "PENDING", result |-> NONE]]
    /\ rp = [i \in Sessions |-> [pc |-> "none", finished |-> NONE, corr |-> NONE, nofail |-> FALSE]]
    /\ lines = 0
    /\ prior = NoPrior
    /\ runs = 0
    /\ dups = NoDups
    /\ rep = NoReports
    /\ cbFailed = 0
    /\ newer = NoNewer
    /\ twice = NoStarts
    /\ coll = NoScans
    /\ runner \in [stream : Streams(MaxBytes), pos : {0}, buffer : {<<>>},
                    passed : {<<>>}, open : {TRUE}]
    /\ child = [i \in Sessions |-> [st |-> "none", sig |-> FALSE]]
    /\ sigHandler = 0
    /\ api = [stops |-> 0, pending |-> 0, loopStop |-> FALSE, preSpawn |-> {}, revoked |-> {}]
    /\ now = 0

\* Runner.outReceived(data) (tasks.py:316-322) on the next n bytes of the stream;
\* when _process_message raises, the exception leaves outReceived after _buffer
\* was assigned, and the reactor either goes on reading or drops the pipe
OutReceived ==
    /\ runner.open
    /\ \E n \in 1..(Len(runner.stream) - runner.pos) :
        LET data == SubSeq(runner.stream, runner.pos + 1, runner.pos + n)
            r    == ParseLines(runner.buffer \o data)
            done == Processed(r[1])
        IN  \E goesOn \in BOOLEAN :
              /\ (Len(done) = Len(r[1]) => goesOn)
              /\ runner' = [runner EXCEPT !.pos = @ + n, !.buffer = r[2],
                                          !.passed = @ \o done, !.open = goesOn]
    /\ UNCHANGED <<scan, sessions, issues, callbacks, stateQ, wf, bus, rp, child, sigHandler, api, now, lines, prior, runs, dups, rep, cbFailed, newer, twice, coll>>

NextLines == OutReceived

SpecLines == InitLines /\ [][NextLines]_vars

\* ---- two START requests for one scan, served at the same time, and the scan
\* tasks they enqueue, run by two workers of the scan queue; the target is
\* scannable and every plugin finishes FINISHED

\* a job sent to the state queue by scan task or run_plugin w, which resumes at ret
StartJob(op, sid, st, w, who, ret) ==
    [op |-> op, sid |-> sid, state |-> st, w |-> w, who |-> who, ret |-> ret]

\* scans.find_one (views/scans.py:179)
PutScanControlFind(r) ==
    /\ twice.req[r].pc = "idle"
    /\ twice' = [twice EXCEPT !.req[r] = [pc |-> "found", seen |-> scan.state]]
    /\ UNCHANGED <<scan, sessions, issues, callbacks, stateQ, wf, bus, rp, child, sigHandler, api, now, lines, prior, runs, dups, rep, cbFailed, newer, runner, coll>>

\* the state check on the document read, the update and apply_async
\* (views/scans.py:187-192)
PutScanControlStart(r) ==
    /\ twice.req[r].pc = "found"
    /\ IF twice.req[r].seen # "CREATED"
       THEN /\ twice' = [twice EXCEPT !.req[r].pc = "rejected"]
            /\ UNCHANGED scan
       ELSE /\ twice' = [twice EXCEPT !.req[r].pc = "accepted", !.task[r].pc = "pending"]
            /\ scan' = [scan EXCEPT !.state = "QUEUED", !.queued = now]
    /\ UNCHANGED <<sessions, issues, callbacks, stateQ, wf, bus, rp, child, sigHandler, api, now, lines, prior, runs, dups, rep, cbFailed, newer, runner, coll>>

\* scan(): get_scan and the state check (tasks.py:624-635)
ScanBegin(w) ==
    /\ twice.task[w].pc = "pending"
    /\ twice' = IF scan.state # "QUEUED"
                THEN [twice EXCEPT !.task[w].pc = "done"]
                ELSE [twice EXCEPT !.task[w].pc = "start",
                                   !.task[w].mem = [i \in Sessions |-> sessions[i].state]]
    /\ UNCHANGED <<scan, sessions, issues, callbacks, stateQ, wf, bus, rp, child, sigHandler, api, now, lines, prior, runs, dups, rep, cbFailed, newer, runner, coll>>

\* scan(): send scan_start (tasks.py:641-644)
ScanSendStart(w) ==
    /\ twice.task[w].pc = "start"
    /\ twice' = [twice EXCEPT !.task[w].pc = "blocked",
                              !.q = Append(@, StartJob("scan_start", 0, NONE, w, "task", "queue"))]
    /\ UNCHANGED <<scan, sessions, issues, callbacks, stateQ, wf, bus, rp, child, sigHandler, api, now, lines, prior, runs, dups, rep, cbFailed, newer, runner, coll>>

\* scan(): the session loop sends session_queue, or ends (tasks.py:679-686, 739-751)
ScanQueue(w) ==
    /\ twice.task[w].pc = "queue"
    /\ LET t == twice.task[w] IN
       twice' = IF t.i \in Sessions
                THEN [twice EXCEPT !.task[w].pc = "blocked", !.task[w].mem[t.i] = "QUEUED",
                         !.q = Append(@, StartJob("session_queue", t.i, NONE, w, "task", "dispatch"))]
                ELSE [twice EXCEPT !.task[w].pc = "blocked",
                         !.q = Append(@, StartJob("scan_finish", 0, Classify(t.mem), w, "task", "done"))]
    /\ UNCHANGED <<scan, sessions, issues, callbacks, stateQ, wf, bus, rp, child, sigHandler, api, now, lines, prior, runs, dups, rep, cbFailed, newer, runner, coll>>

\* scan(): send run_plugin, then session_set_task_id (tasks.py:692-701)
ScanDispatch(w) ==
    /\ twice.task[w].pc = "dispatch"
    /\ twice' = [twice EXCEPT !.task[w].pc = "blocked",
                              !.plug[w] = [pc |-> "pending", result |-> NONE],
                              !.q = Append(@, StartJob("session_set_task_id", twice.task[w].i,
                                                       NONE, w, "task", "wait"))]
    /\ UNCHANGED <<scan, sessions, issues, callbacks, stateQ, wf, bus, rp, child, sigHandler, api, now, lines, prior, runs, dups, rep, cbFailed, newer, runner, coll>>

\* scan(): result.get() returns (tasks.py:703-708); the plugin results here are
\* FINISHED or None, so the loop goes on
ScanResult(w) ==
    /\ twice.task[w].pc = "wait"
    /\ twice.plug[w].pc = "returned"
    /\ twice' = [twice EXCEPT !.task[w].pc = "queue",
                              !.task[w].mem[twice.task[w].i] = twice.plug[w].result,
                              !.task[w].i = @ + 1,
                              !.plug[w] = [pc |-> "none", result |-> NONE]]
    /\ UNCHANGED <<scan, sessions, issues, callbacks, stateQ, wf, bus, rp, child, sigHandler, api, now, lines, prior, runs, dups, rep, cbFailed, newer, runner, coll>>

\* run_plugin: the checks on the scan and the session just read, then session_start
\* (tasks.py:440-472)
PluginPreflight(w) ==
    /\ twice.plug[w].pc = "pending"
    /\ twice' = IF PreflightOk(twice.task[w].i)
                THEN [twice EXCEPT !.plug[w].pc = "blocked",
                         !.q = Append(@, StartJob("session_start", twice.task[w].i, NONE,
                                                  w, "plug", "spawn"))]
                ELSE [twice EXCEPT !.plug[w] = [pc |-> "returned", result |-> NONE]]
    /\ UNCHANGED <<scan, sessions, issues, callbacks, stateQ, wf, bus, rp, child, sigHandler, api, now, lines, prior, runs, dups, rep, cbFailed, newer, runner, coll>>

\* run_plugin: subprocess.Popen (tasks.py:500)
PluginSpawn(w) ==
    /\ twice.plug[w].pc = "spawn"
    /\ twice' = [twice EXCEPT !.plug[w].pc = "running",
                              !.children[twice.task[w].i] = @ + 1]
    /\ UNCHANGED <<scan, sessions, issues, callbacks, stateQ, wf, bus, rp, child, sigHandler, api, now, lines, prior, runs, dups, rep, cbFailed, newer, runner, coll>>

\* run_plugin: the child's finish message, state FINISHED (tasks.py:539-545)
PluginFinish(w) ==
    /\ twice.plug[w].pc = "running"
    /\ twice' = [twice EXCEPT !.plug[w].pc = "blocked",
                              !.q = Append(@, StartJob("session_finish", twice.task[w].i,
                                                       "FINISHED", w, "plug", "correlate"))]
    /\ UNCHANGED <<scan, sessions, issues, callbacks, stateQ, wf, bus, rp, child, sigHandler, api, now, lines, prior, runs, dups, rep, cbFailed, newer, runner, coll>>

\* run_plugin: the child has exited; send set_status_issues (tasks.py:550-564)
PluginCorrelate(w) ==
    /\ twice.plug[w].pc = "correlate"
    /\ twice' = [twice EXCEPT !.plug[w].pc = "blocked",
                              !.q = Append(@, StartJob("set_status_issues", twice.task[w].i,
                                                       NONE, w, "plug", "return"))]
    /\ UNCHANGED <<scan, sessions, issues, callbacks, stateQ, wf, bus, rp, child, sigHandler, api, now, lines, prior, runs, dups, rep, cbFailed, newer, runner, coll>>

\* run_plugin: return finished (tasks.py:566)
PluginReturn(w) ==
    /\ twice.plug[w].pc = "return"
    /\ twice' = [twice EXCEPT !.plug[w] = [pc |-> "returned", result |-> "FINISHED"]]
    /\ UNCHANGED <<scan, sessions, issues, callbacks, stateQ, wf, bus, rp, child, sigHandler, api, now, lines, prior, runs, dups, rep, cbFailed, newer, runner, coll>>

\* the caller of job j resumes
StartAck(j) ==
    IF j.who = "task"
    THEN [twice EXCEPT !.task[j.w].pc = j.ret, !.q = Tail(@)]
    ELSE [twice EXCEPT !.plug[j.w].pc = j.ret, !.q = Tail(@)]

\* the state worker applies the first job of the queue (tasks.py:55-276); no
\* session references an issue, so set_status_issues writes nothing
StartStateJob ==
    /\ twice.q # <<>>
    /\ LET j == Head(twice.q) IN
       /\ scan' = CASE j.op = "scan_start"  -> [scan EXCEPT !.state = "STARTED", !.started = now]
                    [] j.op = "scan_finish" -> [scan EXCEPT !.state = j.state, !.finished = now]
                    [] OTHER -> scan
       /\ sessions' = CASE j.op = "session_queue"  -> [sessions EXCEPT ![j.sid].state = "QUEUED"]
                        [] j.op = "session_start"  -> [sessions EXCEPT ![j.sid].state = "STARTED"]
                        [] j.op = "session_set_task_id" -> [sessions EXCEPT ![j.sid].task = TRUE]
                        [] j.op = "session_finish" -> [sessions EXCEPT ![j.sid].state = j.state]
                        [] j.op = "scan_finish"    -> CancelCreated
                        [] OTHER -> sessions
       /\ callbacks' = IF j.op = "scan_finish" THEN Append(callbacks, j.state) ELSE callbacks
       /\ twice' = IF j.op = "session_queue"
                   THEN [StartAck(j) EXCEPT !.queued[j.sid] = @ + 1]
                   ELSE StartAck(j)
    /\ UNCHANGED <<issues, stateQ, wf, bus, rp, child, sigHandler, api, now, lines, prior, runs, dups, rep, cbFailed, newer, runner, coll>>

NextTwice ==
    \/ \E r \in Starts : PutScanControlFind(r) \/ PutScanControlStart(r)
    \/ \E w \in Starts :
          \/ ScanBegin(w) \/ ScanSendStart(w) \/ ScanQueue(w) \/ ScanDispatch(w) \/ ScanResult(w)
          \/ PluginPreflight(w) \/ PluginSpawn(w) \/ PluginFinish(w)
          \/ PluginCorrelate(w) \/ PluginReturn(w)
    \/ StartStateJob

SpecTwice == Init /\ [][NextTwice]_vars

\* ---- delete_scan and remove_similar_scan on a collection of scans of two
\* (target, plan) pairs (views/issues.py:99-123, views/scans.py:220-266); sc is
\* the scans collection: a removed document has exists FALSE and no query reads
\* its other fields

\* a delete_issues that takes no other scan as linked to an issue
NoScanLinked(sc, s, x) == FALSE

\* find_issues(scan_id): distinct("sessions.issues") of the scan (views/issues.py:99-100)
FindIssues(sc, s) ==
    IF sc[s].exists THEN UNION {Range(sc[s].issues[i]) : i \in Sessions} ELSE {}

\* res.count() # 0: another scan references the issue (views/issues.py:113-117)
OtherScanLinked(sc, s, x) ==
    \E t \in ScanIds \ {s} : sc[t].exists /\ \E i \in Sessions : x \in Range(sc[t].issues[i])

\* delete_issues(scan_id): to_delete (views/issues.py:105-117)
ToDelete(sc, s) == {x \in FindIssues(sc, s) : ~OtherScanLinked(sc, s, x)}

\* delete_scan(scan_id): remove the issues of to_delete, then the scan
\* (views/issues.py:119-123, views/scans.py:257-266)
DeleteScanIn(st, s) ==
    [issues |-> [x \in IssueIds |-> IF x \in ToDelete(st.scans, s) THEN NoIssue ELSE st.issues[x]],
     scans  |-> [st.scans EXCEPT ![s].exists = FALSE]]

\* the loop of remove_similar_scan over list_scan q (views/scans.py:235-237)
RECURSIVE DeleteAll(_, _)
DeleteAll(st, q) ==
    IF q = <<>> THEN st ELSE DeleteAll(DeleteScanIn(st, Head(q)), Tail(q))

\* list_scan: the scans of the pair of scan s, newest first; a scan with a larger
\* id was created later (views/scans.py:230-233)
RECURSIVE SimilarFrom(_, _, _)
SimilarFrom(sc, s, t) ==
    IF t \notin ScanIds THEN <<>>
    ELSE (IF sc[t].exists /\ sc[t].pair = sc[s].pair THEN <<t>> ELSE <<>>)
         \o SimilarFrom(sc, s, t - 1)

\* every scan exists, and so does the document of every issue
InitDelete ==
    /\ scan = [state |-> "CREATED", queued |-> NoTime, started |-> NoTime,
               finished |-> NoTime, failure |-> NONE]
    /\ sessions = [i \in Sessions |->
                     [state |-> "CREATED", task |-> FALSE, issues |-> <<>>,
                      artifacts |-> 0, failure |-> NONE]]
    /\ issues = [x \in IssueIds |-> ReportedBefore]
    /\ callbacks = <<>>
    /\ stateQ = <<>>
    /\ wf = [pc |-> "idle", i |-> 1, mem |-> [i \in Sessions |-> "CREATED"],
             memScan |-> "CREATED", admitted |-> FALSE, adm |-> NONE, raised |-> FALSE]
    /\ bus = [i \in Sessions |-> [st |-> "none", backend |-> "PENDING", result |-> NONE]]
    /\ rp = [i \in Sessions |-> [pc |-> "none", finished |-> NONE, corr |-> NONE, nofail |-> FALSE]]
    /\ lines = 0
    /\ prior = NoPrior
    /\ runs = 0
    /\ dups = NoDups
    /\ rep = NoReports
    /\ cbFailed = 0
    /\ newer = NoNewer
    /\ runner = NoRunner
    /\ twice = NoStarts
    /\ coll \in [scans : [ScanIds -> [exists : {TRUE}, pair : Pairs,
                                       issues : [Sessions -> CorrLists]]],
                  op : {[name |-> NONE, id |-> 0]}]
    /\ child = [i \in Sessions |-> [st |-> "none", sig |-> FALSE]]
    /\ sigHandler = 0
    /\ api = [stops |-> 0, pending |-> 0, loopStop |-> FALSE, preSpawn |-> {}, revoked |-> {}]
    /\ now = 0

\* delete_scan(s) (views/scans.py:257-266)
DeleteScan(s) ==
    /\ coll.scans[s].exists
    /\ LET st == DeleteScanIn([issues |-> issues, scans |-> coll.scans], s) IN
       /\ issues' = st.issues
       /\ coll' = [scans |-> st.scans, op |-> [name |-> "delete_scan", id |-> s]]
    /\ UNCHANGED <<scan, sessions, callbacks, stateQ, wf, bus, rp, child, sigHandler, api, now, lines, prior, runs, dups, rep, cbFailed, newer, runner, twice>>

\* remove_similar_scan(s) (views/scans.py:220-237)
RemoveSimilarScan(s) ==
    /\ coll.scans[s].exists
    /\ LET st == DeleteAll([issues |-> issues, scans |-> coll.scans],
                           SimilarFrom(coll.scans, s, NScans)) IN
       /\ issues' = st.issues
       /\ coll' = [scans |-> st.scans, op |-> [name |-> "remove_similar_scan", id |-> s]]
    /\ UNCHANGED <<scan, sessions, callbacks, stateQ, wf, bus, rp, child, sigHandler, api, now, lines, prior, runs, dups, rep, cbFailed, newer, runner, twice>>

NextDelete == \E s \in ScanIds : DeleteScan(s) \/ RemoveSimilarScan(s)

SpecDelete == InitDelete /\ [][NextDelete]_vars

\* ---- properties

\* run_plugin of session i has returned after having started its session
RpReturned(i) == rp[i].pc \in {"returned", "returned_early", "returned_failed"}

\* the workflow has returned and no state job or STOP request is still in flight
Quiescent == wf.pc = "done" /\ stateQ = <<>> /\ api.pending = 0

\* C1: once a session's persisted state is terminal, no later step changes it
C1_TerminalSessionStateKept ==
    [][\A i \in Sessions :
          sessions[i].state \in SessionTerminal => sessions'[i].state = sessions[i].state]_vars

\* C2: once the scan's persisted state is FINISHED, FAILED, STOPPED or ABORTED, no
\* step changes the scan's state, its timestamps or its failure
C2_TerminalScanKept ==
    [][scan.state \in ScanTerminal => scan' = scan]_vars

\* C3: if a STOP was issued while the scan was STARTED (its admission passed), then
\* once the workflow has returned and all state jobs are applied the scan is not
\* FINISHED and not FAILED
C3_StopWins ==
    (api.loopStop /\ Quiescent) => scan.state \notin {"FINISHED", "FAILED"}

\* C4: a scan that was neither stopped nor aborted and has a session whose persisted
\* state is FAILED ends FAILED
C4_FailedSessionFailsScan ==
    (/\ Quiescent
     /\ api.stops = 0
     /\ scan.state \in ScanTerminal \ {"ABORTED", "STOPPED"}
     /\ \E i \in Sessions : sessions[i].state = "FAILED")
        => scan.state = "FAILED"

\* C5: the scan's persisted state is FINISHED only if every session's persisted
\* state is FINISHED
C5_FinishedOnlyIfAllFinished ==
    scan.state = "FINISHED" => \A i \in Sessions : sessions[i].state = "FINISHED"

\* C6: when run_plugin has returned after moving its session to STARTED, the
\* session's persisted state is terminal
C6_ReturnedSessionTerminal ==
    \A i \in Sessions : RpReturned(i) => sessions[i].state \in SessionTerminal

\* C7: the value run_plugin returned equals the session's persisted state
C7_ReturnValueIsPersistedState ==
    \A i \in Sessions :
        (RpReturned(i) /\ bus[i].backend = "SUCCESS") => bus[i].result = sessions[i].state

\* the child of session i exited, no finish line was ever taken, and the write
\* run_plugin sends for that has been applied
ExitedUnfinished(i) ==
    /\ child[i].st = "exited"
    /\ rp[i].finished = NONE
    /\ rp[i].pc \notin {"after", "synth"}
    /\ \A k \in 1..Len(stateQ) : ~(stateQ[k].op = "session_finish" /\ stateQ[k].sid = i)

C9_OneSessionAtATime ==
    /\ Cardinality({i \in Sessions : sessions[i].state \in {"QUEUED", "STARTED"}}) <= 1
    /\ \A i \in Sessions \ {1} :
          sessions[i].state \in {"QUEUED", "STARTED"} =>
              sessions[i - 1].state \notin {"CREATED", "QUEUED", "STARTED"}

\* C10: the _task handle of a session is persisted only when the session's QUEUED
\* write was, and whenever the session's child runs the handle is persisted
C10_TaskBeforeChild ==
    \A i \in Sessions :
        /\ sessions[i].task => sessions[i].state # "CREATED"
        /\ child[i].st = "running" => sessions[i].task

\* C11: a session that scan_stop found QUEUED and dispatched with no child spawned
\* is STOPPED from then on, and no child is ever spawned for it
C11_StopBeforeSpawn ==
    \A i \in api.preSpawn : sessions[i].state = "STOPPED" /\ child[i].st = "none"

\* the session whose result made the workflow end the scan, if there is one
EndedBy == {i \in Sessions : wf.mem[i] \in {"ABORTED", "STOPPED"}}

NoSessionRan ==
    \A i \in Sessions : /\ sessions[i].state \in {"CREATED", "CANCELLED"}
                         /\ bus[i].st = "none"
                         /\ child[i].st = "none"

C14_NoSiteAborts ==
    (wf.adm \in {"no_site", "null_site"} /\ api.stops = 0 /\ Quiescent) =>
        /\ scan.state = "ABORTED"
        /\ \A i \in Sessions : sessions[i].state = "CANCELLED"

C16_TimestampsOrdered ==
    LET InOrder(a, b) == (a # NoTime /\ b # NoTime) => a <= b
    IN  /\ InOrder(scan.queued, scan.started)
        /\ InOrder(scan.started, scan.finished)
        /\ InOrder(scan.queued, scan.finished)

\* C17: every change of a session's persisted state is a permitted transition:
\* CREATED to QUEUED, QUEUED to STARTED, STARTED to a finish state, CREATED to
\* CANCELLED, QUEUED to STOPPED
C17_PermittedTransitions ==
    [][LET Permitted ==
               {<<"CREATED", "QUEUED">>, <<"QUEUED", "STARTED">>,
                <<"CREATED", "CANCELLED">>, <<"QUEUED", "STOPPED">>}
                   \cup {<<"STARTED", t>> : t \in FinishStates}
       IN  \A i \in Sessions :
               sessions'[i].state # sessions[i].state =>
                   <<sessions[i].state, sessions'[i].state>> \in Permitted]_vars

\* C18: in a run of the correlator, an issue x that only session p of the previous
\* scan references, and no session of the last scan, becomes Fixed if and only if
\* session p of the last scan is FINISHED, and otherwise keeps its Status; in both
\* cases its OldStatus is the Status it had
C18_FixedIffMatchingFinished ==
    [][runs' = runs + 1 =>
          \A p \in Sessions, x \in IssueIds :
              (/\ x \in Range(prior.issues[p])
               /\ \A q \in Sessions \ {p} : x \notin Range(prior.issues[q])
               /\ x \notin ReferencedIssues)
                  => /\ issues'[x].Status =
                            IF sessions[p].state = "FINISHED" THEN "Fixed" ELSE issues[x].Status
                     /\ issues'[x].OldStatus = issues[x].Status]_vars

\* C19: a second run of the correlator on the same last and previous scan changes
\* no issue and no session
C19_CorrelatorIdempotent ==
    [][(runs = 1 /\ runs' = 2) => (issues' = issues /\ sessions' = sessions)]_vars

\* C20: in the second scan of a target whose previous scan reported A (plugin one)
\* and B (plugin two), when plugin one reported A again, plugin two reported nothing,
\* both finished FINISHED and the workflow has returned: the scan is FINISHED, A is
\* Current with OldStatus Current, B is referenced by the second session and is
\* Fixed with OldStatus Current
C20_SecondScanFixesB ==
    (/\ prior = PriorAB
     /\ api.stops = 0
     /\ Quiescent
     /\ lines = 0
     /\ \A i \in Sessions : /\ rp[i].pc = "returned"
                             /\ rp[i].finished = "FINISHED"
                             /\ sessions[i].state = "FINISHED"
                             /\ sessions[i].artifacts = 0
     /\ sessions[1].issues = <<"A">>
     /\ "A" \notin Range(sessions[2].issues))
        => /\ scan.state = "FINISHED"
           /\ issues["A"].Status = "Current" /\ issues["A"].OldStatus = "Current"
           /\ "B" \in Range(sessions[2].issues)
           /\ issues["B"].Status = "Fixed" /\ issues["B"].OldStatus = "Current"

\* C21: after a run of the correlator every issue that a session of the last scan
\* referenced has Status Current, and its OldStatus is the Status it had before the
\* run when a session of the previous scan references it, and "-" otherwise
C21_ReferencedAreCurrent ==
    [][runs' = runs + 1 =>
          \A x \in ReferencedIssues :
              /\ issues'[x].Status = "Current"
              /\ issues'[x].OldStatus = IF InSecondToLast(x) THEN issues[x].Status ELSE "-"]_vars

\* C22: under any interleaving of session_report_issue jobs, two state workers
\* included, the issues collection holds at most one document per Id, and a job
\* that reports an Id whose document exists changes nothing of that document but
\* its Severity
C22_OneDocumentPerId ==
    [][/\ \A x \in IssueIds : dups'[x] = 0
       /\ \A x \in IssueIds :
             issues[x].exists =>
                 issues'[x] = [issues[x] EXCEPT !.Severity = issues'[x].Severity]]_vars

\* C23: a scan_finish whose callback POST fails records the state, the finished
\* time and the failure it was given, exactly as one whose POST succeeds, and
\* moves the sessions that are CREATED, and no others, to CANCELLED
C23_CallbackFailureIgnored ==
    [][cbFailed' = cbFailed + 1 =>
          LET j == Head(stateQ) IN
          /\ scan'.state = j.state
          /\ scan'.finished = j.t
          /\ scan'.failure = IF j.failure # NONE THEN j.failure ELSE scan.failure
          /\ scan'.queued = scan.queued /\ scan'.started = scan.started
          /\ \A i \in Sessions :
                sessions'[i] = IF sessions[i].state = "CREATED"
                               THEN [sessions[i] EXCEPT !.state = "CANCELLED"]
                               ELSE sessions[i]]_vars

\* C23 happens: the POST of the scan_finish ABORTED of a denied target failed; the
\* scan is ABORTED with its failure and finished time, the sessions are CANCELLED
C23_Witness ==
    /\ cbFailed = 1
    /\ callbacks = <<"ABORTED">>
    /\ scan.state = "ABORTED"
    /\ scan.failure = "target-blacklisted"
    /\ scan.finished # NoTime
    /\ \A i \in Sessions : sessions[i].state = "CANCELLED"

\* C24: never more than one scan-state callback is posted, and once the scan's
\* persisted state is terminal, the workflow has returned and all jobs are applied,
\* exactly one was posted and it carries the scan's persisted state
C24_OneCallbackPerScan ==
    /\ Len(callbacks) <= 1
    /\ (Quiescent /\ scan.state \in ScanTerminal) => callbacks = <<scan.state>>

\* C25: whenever the scan's persisted state is terminal, no run_plugin task of the
\* scan is pending or running unless scan_stop revoked it
C25_NoOrphanTask ==
    scan.state \in ScanTerminal =>
        \A i \in Sessions : bus[i].st \in {"pending", "running"} => i \in api.revoked

\* C26: once the SIGUSR1 of a revoke was forwarded to the running child of a
\* session, run_plugin of that session eventually returns, whatever the child does
C26_SignalledRunnerReturns ==
    \A i \in Sessions : (child[i].sig /\ child[i].st = "running") ~> RpReturned(i)

C28_NoWorkAfterStop ==
    [][scan.state \in {"STOPPING", "STOPPED"} =>
          \A i \in Sessions :
              /\ ~(sessions[i].state = "CREATED" /\ sessions'[i].state = "QUEUED")
              /\ ~(bus[i].st = "none" /\ bus'[i].st = "pending")]_vars

\* a call of the scan task raised after the scan was started
WfRaised == wf.raised \/ wf.adm \in {"lookup_error", "no_site"}

C31_CorrelatorFailureKeepsState ==
    \A i \in Sessions :
        rp[i].corr = "FINISHED" =>
            /\ sessions[i].state = "FINISHED"
            /\ (RpReturned(i) /\ bus[i].backend = "SUCCESS" => bus[i].result = "FINISHED")

\* C32: a finish message with a valid terminal state and no failure field leaves
\* the session without a failure, and FAILED only if the message said FAILED
C32_FinishWithoutFailure ==
    \A i \in Sessions :
        rp[i].nofail /\ rp[i].finished \in FinishStates =>
            /\ sessions[i].failure = NONE
            /\ (sessions[i].state = "FAILED" => rp[i].finished = "FAILED")

\* C33: a run of the correlator for scan_id takes scan_id as the last scan and the
\* scan created just before it as the previous one, also when a newer scan of the
\* target and plan exists: after the run every issue a session of scan_id
\* references is Current, and every issue a session of the previous scan
\* references is referenced by the same session of scan_id
C33_CorrelatesRequestedScan ==
    [][runs' = runs + 1 =>
          /\ \A x \in ReferencedIssues : issues'[x].Status = "Current"
          /\ \A p \in Sessions :
                Range(prior.issues[p]) \subseteq Range(sessions'[p].issues)]_vars

\* the lines of l that hold a JSON document
RECURSIVE Documents(_)
Documents(l) ==
    IF l = <<>> THEN <<>>
    ELSE (IF LoadsRaises(Head(l)) THEN <<>> ELSE <<Head(l)>>) \o Documents(Tail(l))

\* C34: however the stream is cut into chunks, the lines passed to the callback
\* are the newline-terminated lines of the bytes delivered so far, those that hold
\* a message at least, in order and once each, and the buffer holds the partial
\* line that follows them
C34_LinesOfTheStream ==
    LET seen == Split(SubSeq(runner.stream, 1, runner.pos)) IN
    /\ runner.passed = Documents(SubSeq(seen, 1, Len(seen) - 1))
    /\ runner.buffer = seen[Len(seen)]

\* C35: with two START requests at the same time the scan is still driven by one
\* workflow: no session is set QUEUED twice and no session gets two children
C35_OneWorkflowPerScan ==
    \A i \in Sessions : twice.queued[i] <= 1 /\ twice.children[i] <= 1

\* scan s references issue x
Refers(s, x) == \E i \in Sessions : x \in Range(coll.scans[s].issues[i])

\* C36: a delete operation removes the scan it is called for, or every scan of its
\* (target, plan) pair, and of the issue documents exactly those that a removed
\* scan referenced and no remaining scan references
C36_DeletesUnsharedIssues ==
    [][coll'.scans # coll.scans =>
          LET gone == {s \in ScanIds : coll.scans[s].exists /\ ~coll'.scans[s].exists}
              left == {s \in ScanIds : coll'.scans[s].exists}
          IN  /\ gone = IF coll'.op.name = "delete_scan" THEN {coll'.op.id}
                        ELSE {s \in ScanIds : /\ coll.scans[s].exists
                                              /\ coll.scans[s].pair = coll.scans[coll'.op.id].pair}
              /\ \A x \in IssueIds :
                    issues'[x] = IF /\ \E s \in gone : Refers(s, x)
                                    /\ ~\E s \in left : Refers(s, x)
                                 THEN NoIssue ELSE issues[x]]_vars

\* remove_similar_scan has removed two scans that shared an issue, whose document
\* is gone, and that referenced another issue a remaining scan references, whose
\* document is kept
C36_Witness ==
    /\ coll.op.name = "remove_similar_scan"
    /\ \E s, t, u \in ScanIds : \E x, y \in IssueIds :
          /\ s # t /\ x # y
          /\ ~coll.scans[s].exists /\ ~coll.scans[t].exists /\ coll.scans[u].exists
          /\ coll.scans[s].pair = coll.scans[t].pair /\ coll.scans[u].pair # coll.scans[s].pair
          /\ Refers(s, x) /\ Refers(t, x) /\ ~Refers(u, x) /\ ~issues[x].exists
          /\ Refers(s, y) /\ Refers(u, y) /\ issues[y].exists

====
